---- MODULE Spec2Model ----
(***************************************************************************)
(* A model of the FX-Processor wallet ledger (src/wallet_service.py) and   *)
(* of the HTTP handlers that call it (src/main.py).                        *)
(*                                                                         *)
(* Decimal values are exact.  Money amounts and balances are integers in   *)
(* thousandths of a currency unit (0.005 is 5, 0.01 is 10, 100.00 is       *)
(* 100000); exchange rates are integers in thousandths (18.70 is 18700,    *)
(* 0.053 is 53), so amount * rate is an exact integer in millionths.       *)
(***************************************************************************)
EXTENDS Integers, Sequences, FiniteSets, TLC

VARIABLES
    wallets,              \* self.wallets: user -> currency -> balance
    transactions,         \* self.transactions: user -> list of Transaction
    fx_rates,             \* self.fx_rates: <<from, to>> -> rate
    transaction_counter,  \* self.transaction_counter
    outcome,              \* how the last call ended: "ok" or the error it raised
    pc,                   \* per request task: the line its handler has reached
    loc,                  \* per request task: the handler's arguments and locals
    held                  \* the value a caller keeps from get_transactions or get_balances

vars == <<wallets, transactions, fx_rates, transaction_counter, outcome, pc, loc, held>>

(***************************************************************************)
(* Bounds of the model.                                                    *)
(***************************************************************************)
MaxTx == 2
\* request tasks alive at once, and transactions logged, when the handlers
\* are followed line by line
NumTasks == 2
MaxConcTx == 3

Users == {"u1", "u2"}
Currencies == {"USD", "MXN", "EUR"}
\* requested amounts: 0, 0.005, 100.00, 1870.00
Amounts == {0, 5, 100000, 1870000}
\* currencies of the fund and withdraw requests
FundCurrencies == {"USD", "MXN"}
\* <<from, to>> of the convert requests
ConvertPairs == {<<"USD", "MXN">>, <<"MXN", "USD">>, <<"USD", "USD">>, <<"USD", "EUR">>}
\* administrative rate updates: nothing, or rate 1.000 for both of these pairs
NewRatePairs == {<<"USD", "MXN">>, <<"USD", "EUR">>}
NewRateValues == {1000}
\* rates an administrator may install, unvalidated: 0 and -1.000
AdminRateValues == {0, -1000}
\* the amount a caller writes into a value it was returned: 0.005
EditedAmounts == {5}
\* the requests in flight when the handlers are followed line by line
Tasks == 1..NumTasks
ConcRequests ==
    {[op |-> "fund", user_id |-> "u1", currency |-> "USD", to_currency |-> "USD", amount |-> 100000],
     [op |-> "withdraw", user_id |-> "u1", currency |-> "USD", to_currency |-> "USD", amount |-> 100000],
     [op |-> "convert", user_id |-> "u1", currency |-> "USD", to_currency |-> "MXN", amount |-> 100000],
     [op |-> "convert", user_id |-> "u1", currency |-> "USD", to_currency |-> "USD", amount |-> 100000]}

None == "None"

(***************************************************************************)
(* Dictionaries.                                                           *)
(***************************************************************************)
EmptyDict == [k \in {} |-> 0]

DictGet(d, k, default) == IF k \in DOMAIN d THEN d[k] ELSE default

DictSet(d, k, v) == [x \in (DOMAIN d) \cup {k} |-> IF x = k THEN v ELSE d[x]]

DictPop(d, k) == [x \in (DOMAIN d) \ {k} |-> d[x]]

DictUpdate(d, new) ==
    [x \in (DOMAIN d) \cup (DOMAIN new) |-> IF x \in DOMAIN new THEN new[x] ELSE d[x]]

(***************************************************************************)
(* Decimal rounding.                                                       *)
(***************************************************************************)
Abs(n) == IF n < 0 THEN -n ELSE n

Sign(n) == IF n < 0 THEN -1 ELSE 1

_get_precision(currency) == 2

\* Decimal(10) ** -precision, in thousandths
Quantum(currency) == 10 ^ (3 - _get_precision(currency))

\* Decimal(10) ** -precision, in millionths
ProductQuantum(currency) == 10 ^ (6 - _get_precision(currency))

\* n / d rounded to an integer, ties to the even neighbour
QuantizeHalfEven(n, d) ==
    LET q == Abs(n) \div d
        r == Abs(n) % d
    IN  Sign(n) * (IF 2 * r > d \/ (2 * r = d /\ q % 2 = 1) THEN q + 1 ELSE q)

\* n / d rounded to an integer, ties away from zero (ROUND_HALF_UP)
QuantizeHalfUp(n, d) == Sign(n) * ((2 * Abs(n) + d) \div (2 * d))

\* amount (thousandths) quantized to 2 decimals, in thousandths
_round_amount(amount, currency) ==
    Quantum(currency) * QuantizeHalfUp(amount, Quantum(currency))

\* _round_amount(amount * exchange_rate, currency), in thousandths.  The
\* product a * r is split as (a div Q) * r * Q + (a mod Q) * r so that no
\* intermediate value exceeds 32 bits; the value is that of the exact
\* Decimal product.
RoundProduct(amount, exchange_rate, currency) ==
    LET Q == ProductQuantum(currency)
        a == Abs(amount)
        r == Abs(exchange_rate)
        s == Sign(amount) * Sign(exchange_rate)
    IN  Quantum(currency) * s * ((a \div Q) * r + QuantizeHalfUp((a % Q) * r, Q))

(***************************************************************************)
(* The service state threaded through the helper methods.                  *)
(***************************************************************************)
Self == [wallets |-> wallets, transactions |-> transactions, fx_rates |-> fx_rates,
         transaction_counter |-> transaction_counter]

_ensure_wallet_exists(st, user_id) ==
    [st EXCEPT
        !.wallets = IF user_id \in DOMAIN st.wallets THEN @
                    ELSE DictSet(@, user_id, EmptyDict),
        !.transactions = IF user_id \in DOMAIN st.transactions THEN @
                         ELSE DictSet(@, user_id, <<>>)]

\* the value _get_balance returns; its effect on the state is
\* _ensure_wallet_exists
_get_balance(st, user_id, currency) ==
    DictGet(_ensure_wallet_exists(st, user_id).wallets[user_id], currency, 0)

\* _set_balance without the removal of a zero balance
_set_balance_keeps_zero(st, user_id, currency, amount) ==
    LET s1 == _ensure_wallet_exists(st, user_id)
        rounded_amount == _round_amount(amount, currency)
    IN  [s1 EXCEPT !.wallets[user_id] = DictSet(@, currency, rounded_amount)]

\* _set_balance assigning a new wallet that holds the one currency
_set_balance_new_wallet(st, user_id, currency, amount) ==
    LET s1 == _ensure_wallet_exists(st, user_id)
        rounded_amount == _round_amount(amount, currency)
    IN  IF rounded_amount = 0
        THEN [s1 EXCEPT !.wallets[user_id] = EmptyDict]
        ELSE [s1 EXCEPT !.wallets[user_id] = DictSet(EmptyDict, currency, rounded_amount)]

_set_balance(st, user_id, currency, amount) ==
    LET s1 == _ensure_wallet_exists(st, user_id)
        rounded_amount == _round_amount(amount, currency)
    IN  IF rounded_amount = 0
        THEN [s1 EXCEPT !.wallets[user_id] = DictPop(@, currency)]
        ELSE [s1 EXCEPT !.wallets[user_id] = DictSet(@, currency, rounded_amount)]

\* _add_transaction inserting at the head of the log
_add_transaction_at_head(st, user_id, transaction) ==
    LET s1 == _ensure_wallet_exists(st, user_id)
    IN  [s1 EXCEPT !.transactions[user_id] = <<transaction>> \o @]

_add_transaction(st, user_id, transaction) ==
    LET s1 == _ensure_wallet_exists(st, user_id)
    IN  [s1 EXCEPT !.transactions[user_id] = Append(@, transaction)]

RECURSIVE Digits(_)
Digits(n) == IF n < 10 THEN <<n>> ELSE Append(Digits(n \div 10), n % 10)

RECURSIVE ZeroPad(_, _)
ZeroPad(ds, width) == IF Len(ds) >= width THEN ds ELSE ZeroPad(<<0>> \o ds, width)

\* f"tx_{n:06d}"
FormatId(n) == <<"tx_">> \o ZeroPad(Digits(n), 6)

\* _generate_transaction_id without the increment of the counter
_generate_transaction_id_stale(st) == st

\* the state after the increment; the id returned is FormatId of its counter
_generate_transaction_id(st) ==
    [st EXCEPT !.transaction_counter = @ + 1]

\* a Transaction whose currency is the target currency of a conversion
TransactionOfTarget(id, user_id, type, currency, amount, from_currency, to_currency, exchange_rate) ==
    [id |-> id, user_id |-> user_id, type |-> type,
     currency |-> IF to_currency # None THEN to_currency ELSE currency,
     amount |-> amount, from_currency |-> from_currency,
     to_currency |-> to_currency, exchange_rate |-> exchange_rate]

Transaction(id, user_id, type, currency, amount, from_currency, to_currency, exchange_rate) ==
    [id |-> id, user_id |-> user_id, type |-> type, currency |-> currency,
     amount |-> amount, from_currency |-> from_currency,
     to_currency |-> to_currency, exchange_rate |-> exchange_rate]

Raise(st, error) == [st |-> st, ok |-> FALSE, error |-> error]

(***************************************************************************)
(* The operations.  Each yields the state it leaves behind (st) and what   *)
(* it returns or raises.                                                   *)
(***************************************************************************)
fund_wallet(st, user_id, currency, amount) ==
    IF amount <= 0 THEN Raise(st, [kind |-> "InvalidAmount"])
    ELSE
    LET current_balance == _get_balance(st, user_id, currency)
        s1 == _ensure_wallet_exists(st, user_id)
        new_balance == current_balance + amount
        s2 == _set_balance(s1, user_id, currency, new_balance)
        s3 == _generate_transaction_id(s2)
        transaction == Transaction(FormatId(s3.transaction_counter), user_id, "fund",
                                   currency, amount, None, None, None)
        s4 == _add_transaction(s3, user_id, transaction)
    IN  [st |-> s4, ok |-> TRUE, new_balance |-> new_balance]

\* withdraw_funds writing the new balance before the sufficiency check
withdraw_funds_debit_first(st, user_id, currency, amount) ==
    IF amount <= 0 THEN Raise(st, [kind |-> "InvalidAmount"])
    ELSE
    LET current_balance == _get_balance(st, user_id, currency)
        s1 == _ensure_wallet_exists(st, user_id)
        new_balance == current_balance - amount
        s2 == _set_balance(s1, user_id, currency, new_balance)
    IN  IF current_balance < amount
        THEN Raise(s2, [kind |-> "InsufficientBalance",
                        available |-> current_balance, currency |-> currency])
        ELSE
        LET s3 == _generate_transaction_id(s2)
            transaction == Transaction(FormatId(s3.transaction_counter), user_id,
                                       "withdraw", currency, amount, None, None, None)
            s4 == _add_transaction(s3, user_id, transaction)
        IN  [st |-> s4, ok |-> TRUE, new_balance |-> new_balance]

withdraw_funds(st, user_id, currency, amount) ==
    IF amount <= 0 THEN Raise(st, [kind |-> "InvalidAmount"])
    ELSE
    LET current_balance == _get_balance(st, user_id, currency)
        s1 == _ensure_wallet_exists(st, user_id)
    IN  IF current_balance < amount
        THEN Raise(s1, [kind |-> "InsufficientBalance",
                        available |-> current_balance, currency |-> currency])
        ELSE
        LET new_balance == current_balance - amount
            s2 == _set_balance(s1, user_id, currency, new_balance)
            s3 == _generate_transaction_id(s2)
            transaction == Transaction(FormatId(s3.transaction_counter), user_id,
                                       "withdraw", currency, amount, None, None, None)
            s4 == _add_transaction(s3, user_id, transaction)
        IN  [st |-> s4, ok |-> TRUE, new_balance |-> new_balance]

\* the argument checks with the rate lookup ahead of the same-currency test
convert_checks_rate_first(rates, from_currency, to_currency, amount) ==
    IF amount <= 0 THEN "InvalidAmount"
    ELSE IF <<from_currency, to_currency>> \notin DOMAIN rates THEN "RateUnavailable"
    ELSE IF from_currency = to_currency THEN "SameCurrency"
    ELSE "ok"

\* the checks convert_currency makes before it reads the balance
convert_checks(rates, from_currency, to_currency, amount) ==
    IF amount <= 0 THEN "InvalidAmount"
    ELSE IF from_currency = to_currency THEN "SameCurrency"
    ELSE IF <<from_currency, to_currency>> \notin DOMAIN rates THEN "RateUnavailable"
    ELSE "ok"

convert_currency(st, rates, user_id, from_currency, to_currency, amount) ==
    IF convert_checks(rates, from_currency, to_currency, amount) # "ok"
    THEN Raise(st, [kind |-> convert_checks(rates, from_currency, to_currency, amount)])
    ELSE
    LET exchange_rate == rates[<<from_currency, to_currency>>]
        current_balance == _get_balance(st, user_id, from_currency)
        s1 == _ensure_wallet_exists(st, user_id)
    IN  IF current_balance < amount
        THEN Raise(s1, [kind |-> "InsufficientBalance",
                        available |-> current_balance, currency |-> from_currency])
        ELSE
        LET converted_amount == RoundProduct(amount, exchange_rate, to_currency)
            new_from_balance == current_balance - amount
            s2 == _set_balance(s1, user_id, from_currency, new_from_balance)
            current_to_balance == _get_balance(s2, user_id, to_currency)
            new_to_balance == current_to_balance + converted_amount
            s3 == _set_balance(s2, user_id, to_currency, new_to_balance)
            s4 == _generate_transaction_id(s3)
            transaction == Transaction(FormatId(s4.transaction_counter), user_id,
                                       "convert", from_currency, amount,
                                       from_currency, to_currency, exchange_rate)
            s5 == _add_transaction(s4, user_id, transaction)
        IN  [st |-> s5, ok |-> TRUE, converted_amount |-> converted_amount,
             exchange_rate |-> exchange_rate, from_balance |-> new_from_balance,
             to_balance |-> new_to_balance]

\* get_balances without _ensure_wallet_exists: self.wallets[user_id] raises
\* KeyError for a user that has no wallet
get_balances_unchecked(st, user_id) ==
    IF user_id \in DOMAIN st.wallets THEN st.wallets[user_id]
    ELSE [KeyError |-> user_id]

\* dict(self.wallets[user_id]) after _ensure_wallet_exists
get_balances(st, user_id) == _ensure_wallet_exists(st, user_id).wallets[user_id]

\* self.transactions[user_id].copy() after _ensure_wallet_exists
get_transactions(st, user_id) == _ensure_wallet_exists(st, user_id).transactions[user_id]

\* the live rate of the pair a CONVERT transaction names
LiveRate(transaction) ==
    fx_rates[<<transaction.from_currency, transaction.to_currency>>]

\* the rate reconcile_balances replays a CONVERT transaction at
ReplayRate(transaction) == transaction.exchange_rate

\* the loop of reconcile_balances over the first n transactions
RECURSIVE Replay(_, _)
Replay(txs, n) ==
    IF n = 0 THEN EmptyDict
    ELSE
    LET calculated_balances == Replay(txs, n - 1)
        transaction == txs[n]
    IN  IF transaction.type = "fund"
        THEN DictSet(calculated_balances, transaction.currency,
                     DictGet(calculated_balances, transaction.currency, 0)
                        + transaction.amount)
        ELSE IF transaction.type = "withdraw"
        THEN DictSet(calculated_balances, transaction.currency,
                     DictGet(calculated_balances, transaction.currency, 0)
                        - transaction.amount)
        ELSE
        LET from_currency == transaction.from_currency
            to_currency == transaction.to_currency
            c1 == DictSet(calculated_balances, from_currency,
                          DictGet(calculated_balances, from_currency, 0)
                             - transaction.amount)
            converted_amount == RoundProduct(transaction.amount,
                                             ReplayRate(transaction), to_currency)
        IN  DictSet(c1, to_currency, DictGet(c1, to_currency, 0) + converted_amount)

\* the recomputed totals after rounding, before totals <= 0 are dropped
RoundedTotals(st, user_id) ==
    LET txs == get_transactions(st, user_id)
        raw == Replay(txs, Len(txs))
    IN  [c \in DOMAIN raw |-> _round_amount(raw[c], c)]

reconcile_balances(st, user_id) ==
    LET rounded == RoundedTotals(st, user_id)
        calculated_balances == [c \in {k \in DOMAIN rounded : rounded[k] > 0} |-> rounded[c]]
        current_balances == get_balances(st, user_id)
    IN  [current_balances |-> current_balances,
         calculated_balances |-> calculated_balances,
         balanced |-> (current_balances = calculated_balances)]

\* reconcile_balances writing the totals it recomputed into the wallet
reconcile_balances_repairs(st, user_id) ==
    [_ensure_wallet_exists(st, user_id) EXCEPT
        !.wallets[user_id] = reconcile_balances(st, user_id).calculated_balances]

\* the state reconcile_balances leaves: it calls get_transactions and
\* get_balances, which pass through _ensure_wallet_exists, and assigns
\* nothing else
reconcile_balances_state(st, user_id) ==
    _ensure_wallet_exists(_ensure_wallet_exists(st, user_id), user_id)

\* update_fx_rates assigning the new table in place of the old one
update_fx_rates_replaces(rates, new_rates) == new_rates

update_fx_rates(rates, new_rates) == DictUpdate(rates, new_rates)

(***************************************************************************)
(* Init: WalletService.__init__; no request is in flight.                  *)
(***************************************************************************)
NoLocals == [op |-> None, user_id |-> None, currency |-> None, to_currency |-> None,
             amount |-> 0, current_balance |-> 0, exchange_rate |-> 0,
             converted_amount |-> 0, id |-> None]

\* the caller holds no returned value
NoHeld == [kind |-> None, user_id |-> None, items |-> <<>>, value |-> EmptyDict]

SeedRates == [p \in {<<"USD", "MXN">>, <<"MXN", "USD">>} |->
                 IF p = <<"USD", "MXN">> THEN 18700 ELSE 53]

Init ==
    /\ wallets = EmptyDict
    /\ transactions = EmptyDict
    /\ fx_rates = SeedRates
    /\ transaction_counter = 0
    /\ outcome = "ok"
    /\ pc = [t \in Tasks |-> "idle"]
    /\ loc = [t \in Tasks |-> NoLocals]
    /\ held = NoHeld

Commit(st) ==
    /\ wallets' = st.wallets
    /\ transactions' = st.transactions
    /\ transaction_counter' = st.transaction_counter

Outcome(r) == IF r.ok THEN "ok" ELSE r.error.kind

(***************************************************************************)
(* One action per call of a public operation.                              *)
(***************************************************************************)
FundWallet ==
    \E u \in Users, c \in FundCurrencies, a \in Amounts :
        LET r == fund_wallet(Self, u, c, a)
        IN  /\ r.st.transaction_counter <= MaxTx
            /\ Commit(r.st)
            /\ outcome' = Outcome(r)
            /\ UNCHANGED <<fx_rates, pc, loc, held>>

WithdrawFunds ==
    \E u \in Users, c \in FundCurrencies, a \in Amounts :
        LET r == withdraw_funds(Self, u, c, a)
        IN  /\ r.st.transaction_counter <= MaxTx
            /\ Commit(r.st)
            /\ outcome' = Outcome(r)
            /\ UNCHANGED <<fx_rates, pc, loc, held>>

ConvertCurrency ==
    \E u \in Users, p \in ConvertPairs, a \in Amounts :
        LET r == convert_currency(Self, fx_rates, u, p[1], p[2], a)
        IN  /\ r.st.transaction_counter <= MaxTx
            /\ Commit(r.st)
            /\ outcome' = Outcome(r)
            /\ UNCHANGED <<fx_rates, pc, loc, held>>

GetBalances ==
    \E u \in Users :
        /\ Commit(_ensure_wallet_exists(Self, u))
        /\ outcome' = "ok"
        /\ UNCHANGED <<fx_rates, pc, loc, held>>

GetTransactions ==
    \E u \in Users :
        /\ Commit(_ensure_wallet_exists(Self, u))
        /\ outcome' = "ok"
        /\ UNCHANGED <<fx_rates, pc, loc, held>>

ReconcileBalances ==
    \E u \in Users :
        LET s == reconcile_balances_state(Self, u)
        IN  /\ Commit(s)
            /\ fx_rates' = s.fx_rates
            /\ outcome' = "ok"
            /\ UNCHANGED <<pc, loc, held>>

UpdateFxRates ==
    \E ps \in {{}, NewRatePairs} :
        \E new_rates \in [ps -> NewRateValues] :
            /\ fx_rates' = update_fx_rates(fx_rates, new_rates)
            /\ outcome' = "ok"
            /\ UNCHANGED <<wallets, transactions, transaction_counter, pc, loc, held>>

Next ==
    \/ FundWallet
    \/ WithdrawFunds
    \/ ConvertCurrency
    \/ GetBalances
    \/ GetTransactions
    \/ ReconcileBalances
    \/ UpdateFxRates

Spec == Init /\ [][Next]_vars

(***************************************************************************)
(* The handlers followed line by line.  Each request is a task of the      *)
(* server's event loop.  The handlers of src/main.py are coroutines        *)
(* (async def) whose body calls the service method and never awaits, so a  *)
(* task that has begun its body keeps the loop until it returns: no other  *)
(* task takes a step meanwhile.                                            *)
(***************************************************************************)
\* a task threaded on a worker pool keeps nothing: others run at any line
HoldsLoopNever(label) == FALSE

\* the task is inside its handler's body
HoldsLoop(label) == label \notin {"idle", "start"}

CanRun(t) == \A o \in Tasks \ {t} : ~HoldsLoop(pc[o])

InFlight == {t \in Tasks : pc[t] # "idle"}

Goto(t, label, locals) ==
    /\ pc' = [pc EXCEPT ![t] = label]
    /\ loc' = [loc EXCEPT ![t] = locals]

Finish(t, how) ==
    /\ pc' = [pc EXCEPT ![t] = "idle"]
    /\ loc' = [loc EXCEPT ![t] = NoLocals]
    /\ outcome' = how

\* a request arrives and its handler task is created
Accept(t) ==
    /\ pc[t] = "idle"
    /\ transaction_counter + Cardinality(InFlight) < MaxConcTx
    /\ \E req \in ConcRequests :
          Goto(t, "start", [NoLocals EXCEPT !.op = req.op, !.user_id = req.user_id,
                                            !.currency = req.currency,
                                            !.to_currency = req.to_currency,
                                            !.amount = req.amount])
    /\ UNCHANGED <<wallets, transactions, fx_rates, transaction_counter, outcome, held>>

\* the argument checks and current_balance = self._get_balance(...)
ReadBalance(t) ==
    /\ pc[t] = "start"
    /\ CanRun(t)
    /\ LET l == loc[t]
           checks == IF l.op = "convert"
                     THEN convert_checks(fx_rates, l.currency, l.to_currency, l.amount)
                     ELSE IF l.amount <= 0 THEN "InvalidAmount" ELSE "ok"
       IN  IF checks # "ok"
           THEN /\ Finish(t, checks)
                /\ UNCHANGED <<wallets, transactions, transaction_counter>>
           ELSE /\ Commit(_ensure_wallet_exists(Self, l.user_id))
                /\ Goto(t, IF l.op = "fund" THEN "set" ELSE "check",
                        [l EXCEPT !.current_balance =
                                      _get_balance(Self, l.user_id, l.currency),
                                  !.exchange_rate =
                                      IF l.op = "convert"
                                      THEN fx_rates[<<l.currency, l.to_currency>>]
                                      ELSE 0])
                /\ UNCHANGED outcome
    /\ UNCHANGED <<fx_rates, held>>

\* if current_balance < amount: raise
CheckBalance(t) ==
    /\ pc[t] = "check"
    /\ CanRun(t)
    /\ LET l == loc[t]
       IN  IF l.current_balance < l.amount
           THEN Finish(t, "InsufficientBalance")
           ELSE /\ Goto(t, "set",
                        [l EXCEPT !.converted_amount =
                                      IF l.op = "convert"
                                      THEN RoundProduct(l.amount, l.exchange_rate,
                                                        l.to_currency)
                                      ELSE 0])
                /\ UNCHANGED outcome
    /\ UNCHANGED <<wallets, transactions, fx_rates, transaction_counter, held>>

\* self._set_balance(user_id, currency, current_balance +/- amount)
SetBalance(t) ==
    /\ pc[t] = "set"
    /\ CanRun(t)
    /\ LET l == loc[t]
           new_balance == IF l.op = "fund" THEN l.current_balance + l.amount
                          ELSE l.current_balance - l.amount
       IN  /\ Commit(_set_balance(Self, l.user_id, l.currency, new_balance))
           /\ Goto(t, IF l.op = "convert" THEN "credit" ELSE "genid", l)
    /\ UNCHANGED <<fx_rates, outcome, held>>

\* convert_currency: read the target balance and store it plus converted_amount
CreditTarget(t) ==
    /\ pc[t] = "credit"
    /\ CanRun(t)
    /\ LET l == loc[t]
           current_to_balance == _get_balance(Self, l.user_id, l.to_currency)
       IN  /\ Commit(_set_balance(Self, l.user_id, l.to_currency,
                                  current_to_balance + l.converted_amount))
           /\ Goto(t, "genid", l)
    /\ UNCHANGED <<fx_rates, outcome, held>>

\* id = self._generate_transaction_id()
GenerateId(t) ==
    /\ pc[t] = "genid"
    /\ CanRun(t)
    /\ LET s1 == _generate_transaction_id(Self)
       IN  /\ Commit(s1)
           /\ Goto(t, "add", [loc[t] EXCEPT !.id = FormatId(s1.transaction_counter)])
    /\ UNCHANGED <<fx_rates, outcome, held>>

\* self._add_transaction(user_id, transaction); return
AddTransaction(t) ==
    /\ pc[t] = "add"
    /\ CanRun(t)
    /\ LET l == loc[t]
           transaction ==
               IF l.op = "convert"
               THEN Transaction(l.id, l.user_id, "convert", l.currency, l.amount,
                                l.currency, l.to_currency, l.exchange_rate)
               ELSE Transaction(l.id, l.user_id, l.op, l.currency, l.amount,
                                None, None, None)
       IN  /\ Commit(_add_transaction(Self, l.user_id, transaction))
           /\ Finish(t, "ok")
    /\ UNCHANGED <<fx_rates, held>>

NextConc ==
    \/ \E t \in Tasks : Accept(t)
    \/ \E t \in Tasks : ReadBalance(t)
    \/ \E t \in Tasks : CheckBalance(t)
    \/ \E t \in Tasks : SetBalance(t)
    \/ \E t \in Tasks : CreditTarget(t)
    \/ \E t \in Tasks : GenerateId(t)
    \/ \E t \in Tasks : AddTransaction(t)

SpecConc == Init /\ [][NextConc]_vars

(***************************************************************************)
(* The caller of the service, in the same process.  get_transactions       *)
(* returns self.transactions[user_id].copy(): a new list whose items are   *)
(* the stored Transaction objects themselves, and Transaction is a         *)
(* dataclass that is not frozen.  A stored Transaction object is named by  *)
(* its place <<user, index>> in the log.  get_balances returns             *)
(* dict(self.wallets[user_id]): a new dict of Decimal values, which are    *)
(* immutable.                                                              *)
(***************************************************************************)
\* the items of list.copy(): references to the objects of the stored list
ShallowCopy(user_id, txs) == [i \in 1..Len(txs) |-> <<user_id, i>>]

CallerGetTransactions ==
    \E u \in Users :
        /\ Commit(_ensure_wallet_exists(Self, u))
        /\ held' = [NoHeld EXCEPT !.kind = "transactions", !.user_id = u,
                                  !.items = ShallowCopy(u, get_transactions(Self, u))]
        /\ outcome' = "ok"
        /\ UNCHANGED <<fx_rates, pc, loc>>

CallerGetBalances ==
    \E u \in Users :
        /\ Commit(_ensure_wallet_exists(Self, u))
        /\ held' = [NoHeld EXCEPT !.kind = "balances", !.user_id = u,
                                  !.value = get_balances(Self, u)]
        /\ outcome' = "ok"
        /\ UNCHANGED <<fx_rates, pc, loc>>

\* del returned[0]
CallerEditsList ==
    /\ held.kind = "transactions"
    /\ held.items # <<>>
    /\ held' = [held EXCEPT !.items = Tail(@)]
    /\ UNCHANGED <<wallets, transactions, fx_rates, transaction_counter, outcome, pc, loc>>

\* returned[i].amount = a: an attribute of the object the item refers to
CallerEditsRecord ==
    /\ held.kind = "transactions"
    /\ \E i \in 1..Len(held.items), a \in EditedAmounts :
          LET ref == held.items[i]
          IN  transactions' = [transactions EXCEPT ![ref[1]][ref[2]].amount = a]
    /\ UNCHANGED <<wallets, fx_rates, transaction_counter, outcome, pc, loc, held>>

\* returned[c] = a, or del returned[c]
CallerEditsBalances ==
    /\ held.kind = "balances"
    /\ \E c \in FundCurrencies :
          \/ \E a \in EditedAmounts : held' = [held EXCEPT !.value = DictSet(@, c, a)]
          \/ held' = [held EXCEPT !.value = DictPop(@, c)]
    /\ UNCHANGED <<wallets, transactions, fx_rates, transaction_counter, outcome, pc, loc>>

CallerEdits == CallerEditsList \/ CallerEditsRecord \/ CallerEditsBalances

NextCaller ==
    \/ FundWallet
    \/ CallerGetTransactions
    \/ CallerGetBalances
    \/ CallerEditsList
    \/ CallerEditsRecord
    \/ CallerEditsBalances

SpecCaller == Init /\ [][NextCaller]_vars

(***************************************************************************)
(* Rate administration without validation: update_fx_rates stores whatever *)
(* rate it is given, and convert_currency multiplies by it.                *)
(***************************************************************************)
UpdateFxRatesAny ==
    \E p \in NewRatePairs, rate \in AdminRateValues :
        /\ fx_rates' = update_fx_rates(fx_rates, [x \in {p} |-> rate])
        /\ outcome' = "ok"
        /\ UNCHANGED <<wallets, transactions, transaction_counter, pc, loc, held>>

NextAdmin ==
    \/ FundWallet
    \/ WithdrawFunds
    \/ ConvertCurrency
    \/ UpdateFxRatesAny

SpecAdmin == Init /\ [][NextAdmin]_vars

(***************************************************************************)
(* What a caller can observe of the stored state: get_balances with an     *)
(* absent entry counting as zero, and get_transactions.                    *)
(***************************************************************************)
BalanceIn(st, u, c) == DictGet(get_balances(st, u), c, 0)

LogIn(st, u) == get_transactions(st, u)

Balance(u, c) == BalanceIn(Self, u, c)

Log(u) == LogIn(Self, u)

\* state t holds the balances, the logs and the counter of state s: every
\* wallet and log of s unchanged, and nothing more than the empty wallet and
\* the empty log that a first access of a user creates
SameContent(s, t) ==
    /\ t.transaction_counter = s.transaction_counter
    /\ DOMAIN s.wallets \subseteq DOMAIN t.wallets
    /\ DOMAIN s.transactions \subseteq DOMAIN t.transactions
    /\ \A u \in DOMAIN t.wallets :
          t.wallets[u] = IF u \in DOMAIN s.wallets THEN s.wallets[u] ELSE EmptyDict
    /\ \A u \in DOMAIN t.transactions :
          t.transactions[u] = IF u \in DOMAIN s.transactions THEN s.transactions[u] ELSE <<>>

IsPrefix(s, t) == Len(s) <= Len(t) /\ SubSeq(t, 1, Len(s)) = s

Last(s) == s[Len(s)]

Errors == {"InvalidAmount", "SameCurrency", "RateUnavailable", "InsufficientBalance"}

(***************************************************************************)
(* C1: after any sequence of fund, withdraw and convert calls, every       *)
(* currency entry stored in every wallet has a strictly positive balance.  *)
(***************************************************************************)
C1_StoredBalancesPositive ==
    \A u \in DOMAIN wallets : \A c \in DOMAIN wallets[u] : wallets[u][c] > 0

\* a conversion brought its source balance to zero: that entry is gone and
\* the target entry holds what was credited
C1_Witness ==
    \E u \in DOMAIN transactions :
        /\ transactions[u] # <<>>
        /\ Last(transactions[u]).type = "convert"
        /\ Last(transactions[u]).from_currency \notin DOMAIN wallets[u]
        /\ Last(transactions[u]).to_currency \in DOMAIN wallets[u]

(***************************************************************************)
(* C2: for a user whose log holds only FUND and WITHDRAW transactions,     *)
(* reconcile_balances returns calculated_balances equal to                 *)
(* current_balances and balanced = true, whatever the positive amounts.    *)
(***************************************************************************)
C2_ReconcileFixedPoint ==
    \A u \in Users :
        (\A i \in 1..Len(Log(u)) : Log(u)[i].type # "convert")
        => LET r == reconcile_balances(Self, u)
           IN  r.balanced /\ r.calculated_balances = r.current_balances

(***************************************************************************)
(* C3: for a user all of whose logged amounts have at most 2 fractional    *)
(* digits, reconcile_balances returns balanced = true in every reachable   *)
(* state, also after update_fx_rates changed the rate of a pair the user   *)
(* converted at.                                                           *)
(***************************************************************************)
TwoDecimals(amount) == amount % 10 = 0

C3_ReconcileBalanced ==
    \A u \in Users :
        (\A i \in 1..Len(Log(u)) : TwoDecimals(Log(u)[i].amount))
        => reconcile_balances(Self, u).balanced

\* a conversion is in the log, the live rate of its pair has changed since,
\* and the wallet holds what the conversion credited
C3_Witness ==
    \E u \in DOMAIN transactions :
        /\ \A i \in 1..Len(transactions[u]) : TwoDecimals(transactions[u][i].amount)
        /\ \E i \in 1..Len(transactions[u]) :
              LET t == transactions[u][i]
              IN  /\ t.type = "convert"
                  /\ fx_rates[<<t.from_currency, t.to_currency>>] # t.exchange_rate
                  /\ t.to_currency \in DOMAIN wallets[u]

(***************************************************************************)
(* C4: a failing fund, withdraw or convert call leaves every stored        *)
(* balance, every transaction log and the transaction-id counter as they   *)
(* were, and an insufficient-balance failure reports the balance that was  *)
(* available.  (Balances and logs as get_balances and get_transactions     *)
(* report them.)                                                           *)
(***************************************************************************)
C4_FailedCall(r, u, c, a) ==
    ~r.ok =>
        /\ SameContent(Self, r.st)
        /\ r.error.kind = "InsufficientBalance" =>
              /\ r.error.available = Balance(u, c)
              /\ r.error.currency = c
              /\ r.error.available < a

C4_EveryFailingCall ==
    \A u \in Users, a \in Amounts :
        /\ \A c \in FundCurrencies :
              /\ C4_FailedCall(fund_wallet(Self, u, c, a), u, c, a)
              /\ C4_FailedCall(withdraw_funds(Self, u, c, a), u, c, a)
        /\ \A p \in ConvertPairs :
              C4_FailedCall(convert_currency(Self, fx_rates, u, p[1], p[2], a), u, p[1], a)

C4_FailureChangesNothing ==
    /\ []C4_EveryFailingCall
    /\ [][outcome' \in Errors => SameContent(Self, Self')]_vars

\* a call has just failed for lack of balance on a wallet that holds less
\* than was asked, with transactions already logged
C4_Witness ==
    /\ outcome = "InsufficientBalance"
    /\ transaction_counter > 0
    /\ \E u \in Users, c \in Currencies, a \in Amounts :
          /\ Balance(u, c) > 0
          /\ ~withdraw_funds(Self, u, c, a).ok

(***************************************************************************)
(* C5: concurrent fund, withdraw and convert requests of one user do not   *)
(* interleave their balance read, sufficiency check, balance write and     *)
(* transaction append, so no update is lost and the wallet is never        *)
(* overdrawn: whenever no request is inside its handler, every stored      *)
(* balance is the total the user's log adds up to, and that total is not   *)
(* negative.                                                               *)
(***************************************************************************)
LedgerTotal(u, c) == DictGet(Replay(Log(u), Len(Log(u))), c, 0)

C5_Quiescent == \A t \in Tasks : ~HoldsLoop(pc[t])

C5_PerUserSerial ==
    /\ \A t1 \in Tasks, t2 \in Tasks :
          (t1 # t2 /\ loc[t1].user_id = loc[t2].user_id)
          => ~(HoldsLoop(pc[t1]) /\ HoldsLoop(pc[t2]))
    /\ C5_Quiescent =>
          \A u \in Users, c \in Currencies :
              /\ LedgerTotal(u, c) >= 0
              /\ Balance(u, c) = LedgerTotal(u, c)

\* a withdrawal has passed the sufficiency check and not yet written the
\* balance, while a second request that would overdraw the same balance is
\* waiting for the loop
C5_Witness ==
    \E t1 \in Tasks, t2 \in Tasks :
        /\ t1 # t2
        /\ pc[t1] = "set" /\ loc[t1].op = "withdraw"
        /\ pc[t2] = "start" /\ loc[t2].op \in {"withdraw", "convert"}
        /\ loc[t1].user_id = loc[t2].user_id
        /\ loc[t1].currency = loc[t2].currency
        /\ loc[t2].currency # loc[t2].to_currency \/ loc[t2].op = "withdraw"
        /\ loc[t1].amount + loc[t2].amount > Balance(loc[t1].user_id, loc[t1].currency)
        /\ loc[t2].amount <= Balance(loc[t1].user_id, loc[t1].currency)

(***************************************************************************)
(* C6: fund_wallet(amount) immediately followed by withdraw_funds(amount)  *)
(* in the same currency succeeds and leaves the stored balance of that     *)
(* currency equal to its value before the fund, for every strictly         *)
(* positive amount.                                                        *)
(***************************************************************************)
C6_FundThenWithdrawConserves ==
    \A u \in Users, c \in FundCurrencies, a \in Amounts :
        a > 0 =>
            LET r1 == fund_wallet(Self, u, c, a)
                r2 == withdraw_funds(r1.st, u, c, a)
            IN  r2.ok /\ BalanceIn(r2.st, u, c) = Balance(u, c)

(***************************************************************************)
(* C7: a successful convert_currency returns converted_amount = amount *   *)
(* rate rounded half-up to 2 decimals, debits amount from the source       *)
(* balance (stored under the 2-decimal storage rule) and credits exactly   *)
(* converted_amount to the target balance; 100 at 18.70 gives 1870.00 and  *)
(* 1870.00 at 0.053 gives 99.11.                                           *)
(***************************************************************************)
\* k hundredths is n / d hundredths rounded half-up, for n >= 0
IsHalfUp(k, n, d) == 2 * k * d <= 2 * n + d /\ 2 * n + d < 2 * (k + 1) * d

C7_ConvertCall(u, f, t, a) ==
    LET r == convert_currency(Self, fx_rates, u, f, t, a)
        rate == fx_rates[<<f, t>>]
        whole == (a \div 10000) * rate
    IN  r.ok =>
          /\ r.exchange_rate = rate
          /\ r.converted_amount % 10 = 0
          /\ IsHalfUp(r.converted_amount \div 10 - whole, (a % 10000) * rate, 10000)
          /\ BalanceIn(r.st, u, t) = Balance(u, t) + r.converted_amount
          /\ BalanceIn(r.st, u, f) % 10 = 0
          /\ IsHalfUp(BalanceIn(r.st, u, f) \div 10, Balance(u, f) - a, 10)
          /\ TwoDecimals(a) => BalanceIn(r.st, u, f) = Balance(u, f) - a
          /\ (a = 100000 /\ rate = 18700) => r.converted_amount = 1870000
          /\ (a = 1870000 /\ rate = 53) => r.converted_amount = 99110

C8_ReturnedBalancesAreStored ==
    \A u \in Users, a \in Amounts :
        /\ \A c \in FundCurrencies :
              LET rf == fund_wallet(Self, u, c, a)
                  rw == withdraw_funds(Self, u, c, a)
              IN  /\ rf.ok => rf.new_balance = BalanceIn(rf.st, u, c)
                  /\ rw.ok => rw.new_balance = BalanceIn(rw.st, u, c)
        /\ \A p \in ConvertPairs :
              LET rc == convert_currency(Self, fx_rates, u, p[1], p[2], a)
              IN  rc.ok => /\ rc.from_balance = BalanceIn(rc.st, u, p[1])
                           /\ rc.to_balance = BalanceIn(rc.st, u, p[2])

(***************************************************************************)
(* C9: convert_currency reports the first failure that applies, in the     *)
(* order non-positive amount, same currency, missing rate pair,            *)
(* insufficient balance.                                                   *)
(***************************************************************************)
C9_Expected(u, f, t, a) ==
    IF a <= 0 THEN "InvalidAmount"
    ELSE IF f = t THEN "SameCurrency"
    ELSE IF <<f, t>> \notin DOMAIN fx_rates THEN "RateUnavailable"
    ELSE IF Balance(u, f) < a THEN "InsufficientBalance"
    ELSE "ok"

C9_ConvertCheckOrder ==
    \A u \in Users, p \in ConvertPairs, a \in Amounts :
        Outcome(convert_currency(Self, fx_rates, u, p[1], p[2], a))
            = C9_Expected(u, p[1], p[2], a)

\* a convert has just failed for a missing rate while some user has no
\* balance at all, and a same-currency convert of that user would fail as
\* SameCurrency
C9_Witness ==
    /\ outcome = "RateUnavailable"
    /\ \E u \in Users :
          /\ \A c \in Currencies : Balance(u, c) = 0
          /\ <<"USD", "EUR">> \notin DOMAIN fx_rates
          /\ Outcome(convert_currency(Self, fx_rates, u, "USD", "EUR", 5)) = "RateUnavailable"
          /\ Outcome(convert_currency(Self, fx_rates, u, "USD", "USD", 5)) = "SameCurrency"

(***************************************************************************)
(* C10: each user's log is append-only and in call order: a successful     *)
(* fund, withdraw or convert appends exactly one transaction of the        *)
(* matching kind at the end of that user's log, and no step changes,       *)
(* reorders or removes an entry already in a log.                          *)
(***************************************************************************)
C10_Appends(r, u, type) ==
    r.ok =>
        /\ Len(LogIn(r.st, u)) = Len(Log(u)) + 1
        /\ IsPrefix(Log(u), LogIn(r.st, u))
        /\ Last(LogIn(r.st, u)).type = type
        /\ \A v \in Users \ {u} : LogIn(r.st, v) = Log(v)

C10_EverySuccessfulCall ==
    \A u \in Users, a \in Amounts :
        /\ \A c \in FundCurrencies :
              /\ C10_Appends(fund_wallet(Self, u, c, a), u, "fund")
              /\ C10_Appends(withdraw_funds(Self, u, c, a), u, "withdraw")
        /\ \A p \in ConvertPairs :
              C10_Appends(convert_currency(Self, fx_rates, u, p[1], p[2], a), u, "convert")

C10_Before(u) == IF u \in DOMAIN transactions THEN transactions[u] ELSE <<>>

C10_StepKeepsLogs ==
    /\ DOMAIN transactions \subseteq DOMAIN transactions'
    /\ \A u \in DOMAIN transactions' :
          /\ IsPrefix(C10_Before(u), transactions'[u])
          /\ Len(transactions'[u]) <= Len(C10_Before(u)) + 1
    /\ \A u \in DOMAIN transactions', v \in DOMAIN transactions' :
          (u # v /\ transactions'[u] # C10_Before(u)) => transactions'[v] = C10_Before(v)

C10_LogAppendOnly ==
    /\ []C10_EverySuccessfulCall
    /\ [][C10_StepKeepsLogs]_vars

\* a log holds two entries of different kinds, in call order
C10_Witness ==
    \E u \in DOMAIN transactions :
        /\ Len(transactions[u]) = 2
        /\ transactions[u][1].type = "fund"
        /\ transactions[u][2].type = "convert"

(***************************************************************************)
(* C11: transaction ids are unique across all users and follow creation    *)
(* order: no two logged transactions share an id, every id carries a       *)
(* counter value the counter has reached, and a transaction a step adds    *)
(* carries a counter value strictly larger than that of every transaction  *)
(* logged before, in whichever log.                                        *)
(***************************************************************************)
RECURSIVE DigitsValue(_, _)
DigitsValue(id, n) == IF n <= 1 THEN 0 ELSE 10 * DigitsValue(id, n - 1) + id[n]

\* the counter value an id was formatted from
IdNumber(id) == DigitsValue(id, Len(id))

\* the positions of all logged transactions
Entries(logs) == UNION {{<<u, i>> : i \in 1..Len(logs[u])} : u \in DOMAIN logs}

C11_IdsDistinct ==
    /\ \A e \in Entries(transactions), f \in Entries(transactions) :
          e # f => transactions[e[1]][e[2]].id # transactions[f[1]][f[2]].id
    /\ \A e \in Entries(transactions) :
          LET id == transactions[e[1]][e[2]].id
          IN  /\ Len(id) = 7 /\ id[1] = "tx_"
              /\ IdNumber(id) \in 1..transaction_counter
    /\ \A u \in DOMAIN transactions : \A i \in 1..Len(transactions[u]) - 1 :
          IdNumber(transactions[u][i].id) < IdNumber(transactions[u][i + 1].id)

C11_NewIdIsLargest ==
    \A e \in Entries(transactions') \ Entries(transactions) :
        \A f \in Entries(transactions) :
            IdNumber(transactions'[e[1]][e[2]].id) > IdNumber(transactions[f[1]][f[2]].id)

C11_IdsUniqueAndOrdered ==
    /\ []C11_IdsDistinct
    /\ [][C11_NewIdIsLargest]_vars

\* two users each hold a logged transaction, the later one in the log of
\* the other user
C11_Witness ==
    /\ transaction_counter = 2
    /\ \A u \in Users : u \in DOMAIN transactions /\ Len(transactions[u]) = 1

(***************************************************************************)
(* C12: what get_transactions and get_balances return is decoupled from    *)
(* live storage: whatever the caller does to a returned list, to a         *)
(* Transaction record inside it or to a returned balance mapping, the      *)
(* stored logs and balances and the result of reconcile_balances stay as   *)
(* they were.                                                              *)
(***************************************************************************)
C12_ReturnedValuesDecoupled ==
    [][CallerEdits =>
          /\ wallets' = wallets
          /\ transactions' = transactions
          /\ \A u \in Users :
                reconcile_balances(Self', u) = reconcile_balances(Self, u)]_vars

(***************************************************************************)
(* C13: reconcile_balances(user) leaves the rate table, the counter and    *)
(* every existing wallet and log as they were; for a user already known    *)
(* it changes nothing at all, and for a never-seen user it creates that    *)
(* user's empty wallet and empty log and nothing else.                     *)
(***************************************************************************)
C13_ReconcileOnlyCreatesEmpty ==
    \A u \in Users :
        LET s == reconcile_balances_state(Self, u)
        IN  /\ s.fx_rates = fx_rates
            /\ s.transaction_counter = transaction_counter
            /\ s.wallets = IF u \in DOMAIN wallets THEN wallets
                           ELSE DictSet(wallets, u, EmptyDict)
            /\ s.transactions = IF u \in DOMAIN transactions THEN transactions
                                ELSE DictSet(transactions, u, <<>>)

\* as first stated: nothing changes, for known and never-seen users alike
C13_ReconcileNoSideEffects ==
    \A u \in Users : reconcile_balances_state(Self, u) = Self

\* one user has a log whose replay differs from the wallet, another user
\* has never been seen: reconciling the first changes nothing, reconciling
\* the second creates an empty wallet
C13_Witness ==
    \E u \in Users, v \in Users :
        /\ u \in DOMAIN wallets /\ transactions[u] # <<>>
        /\ ~reconcile_balances(Self, u).balanced
        /\ reconcile_balances_state(Self, u) = Self
        /\ v \notin DOMAIN wallets
        /\ reconcile_balances_state(Self, v).wallets[v] = EmptyDict

(***************************************************************************)
(* C14: update_fx_rates(new_rates) only merges: afterwards every pair of   *)
(* new_rates has its new rate and every other pair, the reverse pair       *)
(* included, keeps its rate; a step that changes the rate table changes no *)
(* wallet, no log and not the counter.                                     *)
(***************************************************************************)
\* every table over some of the updated pairs, old rate or new
C14_NewRates == UNION {[ps -> NewRateValues \cup {18700}] : ps \in SUBSET NewRatePairs}

C14_Merged ==
    \A new_rates \in C14_NewRates :
        LET r == update_fx_rates(fx_rates, new_rates)
        IN  /\ DOMAIN r = (DOMAIN fx_rates) \cup (DOMAIN new_rates)
            /\ \A p \in DOMAIN new_rates : r[p] = new_rates[p]
            /\ \A p \in (DOMAIN fx_rates) \ (DOMAIN new_rates) : r[p] = fx_rates[p]
            /\ \A p \in DOMAIN new_rates :
                  (<<p[2], p[1]>> \in DOMAIN fx_rates /\ <<p[2], p[1]>> \notin DOMAIN new_rates)
                  => r[<<p[2], p[1]>>] = fx_rates[<<p[2], p[1]>>]

C14_RateStep ==
    fx_rates' # fx_rates =>
        /\ UNCHANGED <<wallets, transactions, transaction_counter>>
        /\ DOMAIN fx_rates \subseteq DOMAIN fx_rates'
        /\ \A p \in (DOMAIN fx_rates) \ NewRatePairs : fx_rates'[p] = fx_rates[p]
        /\ \A p \in NewRatePairs : fx_rates'[p] \in NewRateValues

C14_UpdateOnlyMerges ==
    /\ []C14_Merged
    /\ [][C14_RateStep]_vars

\* USD->MXN was set to 1.000 and USD->EUR added while a wallet held funds;
\* the reverse pair MXN->USD still has its seeded rate
C14_Witness ==
    /\ fx_rates[<<"USD", "MXN">>] = 1000
    /\ <<"USD", "EUR">> \in DOMAIN fx_rates
    /\ fx_rates[<<"MXN", "USD">>] = 53
    /\ \E u \in DOMAIN wallets : wallets[u] # EmptyDict /\ transactions[u] # <<>>

(***************************************************************************)
(* C15: for a user for whom no fund, withdraw or convert has ever          *)
(* succeeded, also one whose only calls failed, get_balances returns an    *)
(* empty mapping and get_transactions an empty sequence, and neither       *)
(* raises.                                                                 *)
(***************************************************************************)
\* every success so far is in a log and none of them belongs to u
C15_NeverSucceeded(u) ==
    /\ Cardinality(Entries(transactions)) = transaction_counter
    /\ \A e \in Entries(transactions) : transactions[e[1]][e[2]].user_id # u

C15_EmptyFor(st, u) ==
    /\ get_balances(st, u) = EmptyDict
    /\ get_transactions(st, u) = <<>>

C15_UnknownUserReadsEmpty ==
    \A u \in Users :
        C15_NeverSucceeded(u) =>
            /\ C15_EmptyFor(Self, u)
            /\ \A a \in Amounts :
                  /\ \A c \in FundCurrencies :
                        LET rf == fund_wallet(Self, u, c, a)
                            rw == withdraw_funds(Self, u, c, a)
                        IN  /\ ~rf.ok => C15_EmptyFor(rf.st, u)
                            /\ ~rw.ok => C15_EmptyFor(rw.st, u)
                  /\ \A p \in ConvertPairs :
                        LET rc == convert_currency(Self, fx_rates, u, p[1], p[2], a)
                        IN  ~rc.ok => C15_EmptyFor(rc.st, u)

\* a call has just failed for lack of balance; a user with a wallet has no
\* success so far while another user holds funds
C15_Witness ==
    /\ outcome = "InsufficientBalance"
    /\ transaction_counter > 0
    /\ \E u \in DOMAIN wallets :
          /\ C15_NeverSucceeded(u)
          /\ \E v \in DOMAIN wallets : wallets[v] # EmptyDict

(***************************************************************************)
(* C16: for any sequence of fund, withdraw and convert calls with strictly *)
(* positive amounts, no per-currency total that reconcile_balances         *)
(* recomputes from the log is negative after rounding, so the filter       *)
(* drops only totals equal to zero.                                        *)
(***************************************************************************)
C16_NonNegative(st, u) ==
    \A c \in DOMAIN RoundedTotals(st, u) : RoundedTotals(st, u)[c] >= 0

C16_RecomputedTotalsNonNegative ==
    \A u \in Users :
        /\ C16_NonNegative(Self, u)
        /\ \A a \in Amounts :
              /\ \A c \in FundCurrencies :
                    /\ C16_NonNegative(fund_wallet(Self, u, c, a).st, u)
                    /\ C16_NonNegative(withdraw_funds(Self, u, c, a).st, u)
              /\ \A p \in ConvertPairs :
                    C16_NonNegative(convert_currency(Self, fx_rates, u, p[1], p[2], a).st, u)

(***************************************************************************)
(* C17: the wallet invariant survives rate administration: after any       *)
(* sequence of fund, withdraw, convert and update_fx_rates calls, where    *)
(* update_fx_rates may install any rate, zero or negative included, every  *)
(* currency entry stored in a wallet has a strictly positive balance.      *)
(***************************************************************************)
C17_PositiveUnderAnyRate ==
    \A u \in Users : \A c \in Currencies :
        c \in DOMAIN get_balances(Self, u) => get_balances(Self, u)[c] > 0

(***************************************************************************)
(* C18: a fund, withdraw or convert call for user u leaves the balances    *)
(* and the log of every other user as they were, and within the wallet of  *)
(* u changes only the currency named (for convert, the source and the      *)
(* target currency).                                                       *)
(***************************************************************************)
C18_WalletOf(ws, u) == IF u \in DOMAIN ws THEN ws[u] ELSE EmptyDict

C18_LogOf(logs, u) == IF u \in DOMAIN logs THEN logs[u] ELSE <<>>

\* the currencies named by the call that has just logged a transaction for u
C18_Named(u) ==
    LET new == C18_LogOf(transactions', u)
    IN  IF Len(new) > Len(C18_LogOf(transactions, u))
        THEN {Last(new).currency, Last(new).to_currency}
        ELSE {}

C18_StepIsolated ==
    /\ \A u \in Users :
          LET before == C18_WalletOf(wallets, u)
              after == C18_WalletOf(wallets', u)
          IN  \A c \in Currencies \ C18_Named(u) :
                  /\ c \in DOMAIN after <=> c \in DOMAIN before
                  /\ c \in DOMAIN before => after[c] = before[c]
    /\ \A u \in Users, v \in Users :
          (u # v /\ C18_LogOf(transactions', u) # C18_LogOf(transactions, u))
          => /\ C18_LogOf(transactions', v) = C18_LogOf(transactions, v)
             /\ C18_WalletOf(wallets', v) = C18_WalletOf(wallets, v)

C19_Rates == {SeedRates[p] : p \in DOMAIN SeedRates} \cup NewRateValues

C19_WellFormed(t, u) ==
    /\ t.amount > 0
    /\ t.user_id = u
    /\ t.type \in {"fund", "withdraw", "convert"}
    /\ t.type = "convert" =>
          /\ t.from_currency = t.currency
          /\ t.to_currency \in Currencies \ {t.from_currency}
          /\ t.exchange_rate \in C19_Rates
    /\ t.type # "convert" =>
          /\ t.from_currency = None
          /\ t.to_currency = None
          /\ t.exchange_rate = None

C19_LogsWellFormed ==
    \A e \in Entries(transactions) : C19_WellFormed(transactions[e[1]][e[2]], e[1])

\* a conversion a step logs carries the rate the table holds for its pair
\* as the step is taken
C19_RateAsTheCallRuns ==
    \A e \in Entries(transactions') \ Entries(transactions) :
        LET t == transactions'[e[1]][e[2]]
        IN  t.type = "convert" =>
                /\ <<t.from_currency, t.to_currency>> \in DOMAIN fx_rates
                /\ t.exchange_rate = fx_rates[<<t.from_currency, t.to_currency>>]

C19_TransactionsWellFormed ==
    /\ []C19_LogsWellFormed
    /\ [][C19_RateAsTheCallRuns]_vars

\* a conversion to EUR was logged at the rate 1.000 installed after the
\* fund that precedes it in the log
C19_Witness ==
    \E u \in DOMAIN transactions :
        /\ Len(transactions[u]) = 2
        /\ transactions[u][1].type = "fund"
        /\ transactions[u][1].exchange_rate = None
        /\ transactions[u][2].type = "convert"
        /\ transactions[u][2].to_currency = "EUR"
        /\ transactions[u][2].exchange_rate = 1000

====
